---- MODULE Spec2Model ----
(***************************************************************************)
(* A model of io_msfs_gltf.py, the MSFS glTF importer: import_msfs_gltf    *)
(* and everything it calls (load_gltf_file, create_materials,              *)
(* create_meshes / fill_mesh_data, create_objects,                         *)
(* setup_object_hierarchy), with the parts of pathlib, mmap, ExitStack and *)
(* the Blender API (bpy.data, bmesh, collections) the importer relies on.  *)
(*                                                                         *)
(* glTF indices are 0-based as in the source; TLA+ sequences are 1-based,  *)
(* so element k of a Python list l is l[k + 1] here.                       *)
(***************************************************************************)
EXTENDS Integers, Sequences, FiniteSets, TLC

VARIABLES
    gltf,          \* the parsed JSON document (read-only after load)
    env,           \* the caller's arguments and the file system
    pc,            \* position inside import_msfs_gltf
    result,        \* what import_msfs_gltf returned or raised
    texture_path,  \* local of import_msfs_gltf (line 422)
    images,        \* get_image_paths' result
    materials,     \* create_materials' result: the Blender materials
    report,        \* the diagnostics passed to the report callback, in order
    files,         \* per buffer: is the file object open
    maps,          \* per buffer: is a memory mapping of it alive
    bpy_meshes,    \* bpy.data.meshes: every mesh datablock created
    meshes,        \* create_meshes' list: datablock ids, one per glTF mesh
    cur,           \* locals of create_meshes / fill_mesh_data
    objects,       \* create_objects' list of Blender objects
    collection,    \* context.collection.objects, in link order
    prim_log       \* history: one record per primitive fill_mesh_data began

vars == <<gltf, env, pc, result, texture_path, images, materials, report,
          files, maps, bpy_meshes, meshes, cur, objects, collection, prim_log>>

(***************************************************************************)
(* Bounds of the input documents.                                          *)
(***************************************************************************)
MaxPrims == 3
MaxMeshes == 2
MaxNodes == 3
MaxBuffers == 2

Range(s) == {s[k] : k \in 1..Len(s)}
Last(s) == s[Len(s)]
Front(s) == SubSeq(s, 1, Len(s) - 1)

(***************************************************************************)
(* pathlib.  A path is an absolute flag and a sequence of components; a    *)
(* component is its sequence of dot-separated segments ("foo.dds" is       *)
(* <<"foo", "dds">>), which is what suffix and with_suffix work on.        *)
(***************************************************************************)
Path(abs, parts) == [abs |-> abs, parts |-> parts]

\* PurePath.parent: the path without its last component; the parent of "."
\* and of the root is the path itself.
Parent(p) == IF p.parts = <<>> THEN p ELSE Path(p.abs, Front(p.parts))

\* PurePath.joinpath: an absolute argument replaces the path.
JoinPath(p, q) == IF q.abs THEN q ELSE Path(p.abs, p.parts \o q.parts)

\* PurePath.is_absolute(), the method CALLED.
IsAbsolute(p) == p.abs

\* The truth value of the expression `texture_path.is_absolute` of line 423:
\* the attribute is not called, so the expression is the bound method object,
\* and a method object is true whatever the path is.
IsAbsoluteAttr(p) == TRUE

\* The suffixes s with s.lower() == '.dds' and with s.lower() == '.png', the
\* dot left out.  str.lower() turns every character into one or more
\* characters and only "D" and "d" into "d" (likewise for the other letters:
\* no character outside ASCII lower-cases to an ASCII letter other than "i"
\* and "k"), so these are exactly the case variants of the three letters.
DDS == {a \o b \o c : a \in {"d", "D"}, b \in {"d", "D"}, c \in {"s", "S"}}
PNG == {a \o b \o c : a \in {"p", "P"}, b \in {"n", "N"}, c \in {"g", "G"}}

\* PurePath.suffix of the last component, without the dot ("" when none).
\* The component has a suffix when its last dot is neither its first nor its
\* last character (".dds" and "foo." have none, "..dds" has one).
Suffix(p) ==
    IF p.parts = <<>> THEN ""
    ELSE LET name == Last(p.parts)
         IN IF Len(name) < 2 \/ Last(name) = "" THEN ""
            ELSE IF Len(name) = 2 /\ name[1] = "" THEN ""
            ELSE Last(name)

\* PurePath.with_suffix(''): drop the suffix of the last component.
DropSuffix(p) ==
    IF Suffix(p) = "" THEN p
    ELSE Path(p.abs, Append(Front(p.parts), Front(Last(p.parts))))

\* PurePath.with_suffix('.' + s): replace the suffix, or add one.
WithSuffix(p, s) ==
    LET q == DropSuffix(p)
    IN Path(q.abs, Append(Front(q.parts), Append(Last(q.parts), s)))

(***************************************************************************)
(* The test 'frost' in name.lower() on a mesh name, a sequence of          *)
(* characters.  For the same reason as above, the lower-cased name         *)
(* contains 'frost' exactly when the name contains five consecutive        *)
(* characters that are f, r, o, s, t in either case.                       *)
(***************************************************************************)
FROST == <<{"f", "F"}, {"r", "R"}, {"o", "O"}, {"s", "S"}, {"t", "T"}>>

FrostInLower(name) ==
    \E k \in 0..(Len(name) - Len(FROST)) :
        \A j \in 1..Len(FROST) : name[k + j] \in FROST[j]

\* Line 291: 'frost' not in gltf_mesh['name'].lower()
DecodesMesh(name) == ~ FrostInLower(name)

(***************************************************************************)
(* The glTF document.  An optional JSON key is a record: `has` says        *)
(* whether the key is present (reading an absent key raises KeyError),     *)
(* `v` is its value.                                                       *)
(***************************************************************************)
None == [has |-> FALSE, v |-> 0]
Some(x) == [has |-> TRUE, v |-> x]
NoVec3 == [has |-> FALSE, v |-> <<0, 0, 0>>]
NoVec4 == [has |-> FALSE, v |-> <<0, 0, 0, 0>>]

\* Decoded accessor contents: n positions, n texture coordinates.
PosArray(n) == [k \in 1..n |-> <<k, 10 + k, 20 + k>>]
TcArray(n, ch) == [k \in 1..n |-> <<10 * ch + k, k + ch>>]

Asobo(s, b, n) == [StartIndex |-> s, BaseVertexIndex |-> b, PrimitiveCount |-> n]

\* One entry of meshes[].primitives.  `read` is what decoding its accessors
\* does: "ok"; "sparse" (an accessor without bufferView: KeyError, line
\* 101); "seek" (the accessor's bytes start beyond the end of the buffer:
\* the seek of line 120 raises ValueError); "range" (they start inside the
\* buffer and run past its end: the slice of line 121 is short and the
\* assert of line 123 fails); "unpack" (count * stride exceeds the bytes of
\* the view: struct.error, line 134).  `extras` is whether
\* extras.ASOBO_primitive is present.
Primitive(read, npos, ntc0, ntc1, idx, material, extras, asobo) ==
    [read |-> read, pos |-> PosArray(npos), tc0 |-> TcArray(ntc0, 0),
     tc1 |-> TcArray(ntc1, 1), idx |-> idx, material |-> material,
     extras |-> extras, asobo |-> asobo]

QuadIdx == <<0, 1, 2, 1, 2, 3>>

\* A quad of four vertices and two triangles, with the given metadata.
Quad(asobo) == Primitive("ok", 4, 4, 4, QuadIdx, Some(0), TRUE, asobo)

GoodPrim == Quad(Asobo(None, None, Some(2)))
NoExtrasPrim == Primitive("ok", 4, 4, 4, QuadIdx, Some(0), FALSE,
                          Asobo(None, None, None))
NoCountPrim == Quad(Asobo(None, None, None))
VertexOutOfRangePrim == Quad(Asobo(None, Some(4), Some(2)))
ShortUv0Prim == Primitive("ok", 4, 3, 4, QuadIdx, Some(0), TRUE,
                          Asobo(None, None, Some(2)))
ShortUv1Prim == Primitive("ok", 4, 4, 3, QuadIdx, Some(0), TRUE,
                          Asobo(None, None, Some(2)))
SparsePrim == Primitive("sparse", 4, 4, 4, QuadIdx, Some(0), TRUE,
                        Asobo(None, None, Some(2)))
RangePrim == Primitive("range", 4, 4, 4, QuadIdx, Some(0), TRUE,
                       Asobo(None, None, Some(2)))
SeekPrim == Primitive("seek", 4, 4, 4, QuadIdx, Some(0), TRUE,
                      Asobo(None, None, Some(2)))
UnpackPrim == Primitive("unpack", 4, 4, 4, QuadIdx, Some(0), TRUE,
                        Asobo(None, None, Some(2)))
NoMaterialPrim == Primitive("ok", 4, 4, 4, QuadIdx, None, TRUE,
                            Asobo(None, None, Some(2)))
MatPrim(m) == Primitive("ok", 4, 4, 4, QuadIdx, Some(m), TRUE,
                        Asobo(None, None, Some(1)))

\* The primitives of the geometry family: every combination of StartIndex,
\* BaseVertexIndex and PrimitiveCount, the metadata absent, the count absent.
GeomPrims ==
    {Quad(Asobo(s, b, Some(n))) :
        s \in {None, Some(3)}, b \in {None, Some(0), Some(4)}, n \in {1, 2}}
    \cup {NoExtrasPrim, NoCountPrim}

MultiPrims == {GoodPrim, VertexOutOfRangePrim, ShortUv0Prim, NoCountPrim,
               SparsePrim, NoMaterialPrim}

WING == <<"w", "i", "n", "g">>
FROSTY == <<"F", "r", "o", "s", "t">>
DEFROSTER == <<"d", "e", "F", "R", "O", "S", "T">>
MeshNames == {WING, DEFROSTER}

Mesh(name, prims) == [name |-> name, primitives |-> prims]

GltfMaterial(name, tex) == [name |-> name, tex |-> tex]

\* One entry of nodes.
Node(name, mesh, t, r, s, children) ==
    [name |-> name, mesh |-> mesh, translation |-> t, rotation |-> r,
     scale |-> s, children |-> children]

NodeName(i) == <<"n", ToString(i)>>
FullNode(i, mesh, children) ==
    Node(NodeName(i), mesh, Some(<<i, i + 1, i + 2>>), Some(<<0, i, 1, 2>>),
         Some(<<1, 2, 3>>), children)

TopKeys == {"buffers", "images", "textures", "materials", "meshes", "nodes",
            "scenes"}

FOO_DDS == Path(FALSE, <<<<"foo", "dds">>>>)

Gltf(keys, buffers, imgs, textures, mats, ms, nodes, scene_nodes) ==
    [keys |-> keys, buffers |-> buffers, images |-> imgs,
     textures |-> textures, materials |-> mats, meshes |-> ms,
     nodes |-> nodes, scene_nodes |-> scene_nodes]

Env(gltf_file, texture_folder, file_status, log_writable) ==
    [gltf_file |-> gltf_file, texture_folder |-> texture_folder,
     file_status |-> file_status, log_writable |-> log_writable]

GLTF_FILE == Path(TRUE, <<<<"pkg">>, <<"model">>, <<"a", "gltf">>>>)
TEXTURE == Path(FALSE, <<<<"TEXTURE">>>>)
BIN_URI == Path(FALSE, <<<<"a", "bin">>>>)

\* The parts a family does not vary.
PlainMaterials == <<GltfMaterial("Paint", Some(0))>>
PlainMeshes == <<Mesh(WING, <<GoodPrim>>)>>
PlainNodes == <<FullNode(0, Some(0), <<>>)>>
PlainEnv == Env(GLTF_FILE, TEXTURE, <<"ok">>, TRUE)

MeshDoc(ms) ==
    Gltf(TopKeys, <<BIN_URI>>, <<FOO_DDS>>, <<0>>, PlainMaterials, ms,
         PlainNodes, <<0>>)

(***************************************************************************)
(* Exceptions and diagnostics.                                             *)
(***************************************************************************)
Running == [status |-> "running", exc |-> "", at |-> ""]
Finished == [status |-> "FINISHED", exc |-> "", at |-> ""]
Raised(exc, at) == [status |-> "raised", exc |-> exc, at |-> at]

\* One call of report({severity}, message); `arg` is the name the message
\* quotes.
Diag(severity, msg, arg) == [severity |-> severity, msg |-> msg, arg |-> arg]

NO_ASOBO == "No Asobo sub primitive"
COULD_NOT_HANDLE == "could not handle mesh"
REPLACED_TEXTURE == "Replaced texture, DDS not supported"

(***************************************************************************)
(* get_image_paths, get_texture_paths, create_materials.                   *)
(***************************************************************************)
\* Lines 353-358: the file the image is loaded from.
ImageUri(uri) ==
    IF Suffix(uri) \in DDS
    THEN LET stem == DropSuffix(uri)
         IN IF Suffix(stem) \notin PNG THEN WithSuffix(stem, "png")
            ELSE stem
    ELSE uri

\* Lines 349-362.
GetImagePaths(g, tex_path) ==
    IF "images" \in g.keys
    THEN [k \in 1..Len(g.images) |-> JoinPath(tex_path, ImageUri(g.images[k]))]
    ELSE <<>>

\* The report calls of line 359, in order.
ImageWarnings(g) ==
    IF "images" \in g.keys
    THEN LET dds == [k \in 1..Len(g.images) |->
                        Suffix(g.images[k]) \in DDS]
             RECURSIVE Collect(_)
             Collect(k) ==
                 IF k > Len(g.images) THEN <<>>
                 ELSE (IF dds[k]
                       THEN <<Diag("WARNING", REPLACED_TEXTURE,
                                   Last(g.images[k].parts))>>
                       ELSE <<>>) \o Collect(k + 1)
         IN Collect(1)
    ELSE <<>>

\* bpy.data.materials.new(name): Blender keeps datablock names unique, a
\* name already taken gets a numbered suffix ("Paint", "Paint.001", ...).
UniqueName(name, taken) ==
    [base |-> name,
     n |-> Cardinality({k \in 1..Len(taken) : taken[k].name.base = name})]

NoImage == [has |-> FALSE, v |-> Path(FALSE, <<>>)]

\* Lines 365-391.  The result: exc is "" and materials the list returned, or
\* exc is the exception that left create_materials.
RECURSIVE MaterialsFrom(_, _, _, _)
MaterialsFrom(g, textures, k, done) ==
    IF k > Len(g.materials) THEN [exc |-> "", materials |-> done]
    ELSE LET m == g.materials[k]
         IN IF m.tex.has /\ m.tex.v >= Len(textures)
            THEN [exc |-> "IndexError", materials |-> <<>>]
            ELSE MaterialsFrom(g, textures, k + 1,
                    Append(done,
                        [name |-> UniqueName(m.name, done),
                         image |-> IF m.tex.has
                                   THEN Some(textures[m.tex.v + 1])
                                   ELSE NoImage]))

CreateMaterialsResult(g, tex_path) ==
    LET imgs == GetImagePaths(g, tex_path)
    IN IF "textures" \notin g.keys
       THEN [exc |-> "KeyError", materials |-> <<>>]
       ELSE IF \E k \in 1..Len(g.textures) : ~ (g.textures[k] < Len(imgs))
       THEN [exc |-> "AssertionError", materials |-> <<>>]
       ELSE IF "materials" \notin g.keys
       THEN [exc |-> "KeyError", materials |-> <<>>]
       ELSE MaterialsFrom(g, [k \in 1..Len(g.textures) |->
                                 imgs[g.textures[k] + 1]], 1, <<>>)

(***************************************************************************)
(* bmesh and fill_mesh_data.                                               *)
(***************************************************************************)
EmptyBMesh == [verts |-> <<>>, faces |-> <<>>]

\* Line 210: converting to blender z up world.
ToBlenderPos(p) == <<p[1], 0 - p[3], p[2]>>

\* Lines 208-211.
AppendVerts(bm, pos) ==
    [bm EXCEPT !.verts = @ \o [k \in 1..Len(pos) |-> ToBlenderPos(pos[k])]]

\* Lines 222-225.  A mapping is a set of <<key, value>> pairs.
HasKey(mapping, k) == \E p \in mapping : p[1] = k
Get(mapping, k) == (CHOOSE p \in mapping : p[1] = k)[2]
Put(mapping, k, v) == {p \in mapping : p[1] /= k} \cup {<<k, v>>}

MatIndex(prim, mat_mapping) ==
    IF prim.material.has /\ HasKey(mat_mapping, prim.material.v)
    THEN Get(mat_mapping, prim.material.v)
    ELSE 0 - 1

\* Lines 227-230.
StartIndex(asobo) == IF asobo.StartIndex.has THEN asobo.StartIndex.v ELSE 0

\* Lines 232-235.
StartVertex(asobo, idx_offset) ==
    IF asobo.BaseVertexIndex.has THEN asobo.BaseVertexIndex.v ELSE idx_offset

\* Lines 245-249: the raw indices of the triangle at i, third first.
UvIndices(idx, i) == <<idx[i + 3], idx[i + 2], idx[i + 1]>>

\* The vertex ids of lines 240-244 with the winding left as it is.
FaceIndicesForward(start_vertex, idx, i) ==
    <<start_vertex + idx[i + 1], start_vertex + idx[i + 2],
      start_vertex + idx[i + 3]>>

\* Lines 240-244.
FaceIndices(start_vertex, idx, i) ==
    <<start_vertex + idx[i + 3], start_vertex + idx[i + 2],
      start_vertex + idx[i + 1]>>

\* Lines 261 and 263.
LoopUv(t) == <<t[1], 1 - t[2]>>

\* bmesh.faces.new raises ValueError for a vertex used twice and for a face
\* that exists already on the same vertices.
FacesNewRaises(bm, ids) ==
    \/ Cardinality(Range(ids)) < 3
    \/ \E k \in 1..Len(bm.faces) : Range(bm.faces[k].verts) = Range(ids)

\* Lines 239-263 for one triangle.  exc is "" and bm holds the new face, or
\* exc is the exception raised.  A face records the primitive and the
\* triangle it was built for.
Triangle(prim, prim_idx, tri_i, start_index, start_vertex, mat_index, bm) ==
    LET i == start_index + tri_i * 3
    IN IF i + 2 >= Len(prim.idx) THEN [exc |-> "IndexError", bm |-> bm]
       ELSE
       LET face_indices == FaceIndices(start_vertex, prim.idx, i)
           uv_indices == UvIndices(prim.idx, i)
           bad(c) == \/ uv_indices[c] >= Len(prim.tc0)
                     \/ uv_indices[c] >= Len(prim.tc1)
           stop == IF \E c \in 1..3 : bad(c)
                   THEN CHOOSE c \in 1..3 : bad(c) /\ \A d \in 1..(c - 1) : ~ bad(d)
                   ELSE 4
           face == [verts |-> face_indices,
                    material_index |-> mat_index,
                    uv0 |-> [c \in 1..3 |->
                               IF c < stop \/ (c = stop
                                               /\ uv_indices[c] < Len(prim.tc0))
                               THEN LoopUv(prim.tc0[uv_indices[c] + 1])
                               ELSE <<0, 0>>],
                    uv1 |-> [c \in 1..3 |->
                               IF c < stop
                               THEN LoopUv(prim.tc1[uv_indices[c] + 1])
                               ELSE <<0, 0>>],
                    prim |-> prim_idx, tri |-> tri_i]
       IN IF \E c \in 1..3 : face_indices[c] >= Len(bm.verts)
          THEN [exc |-> "IndexError", bm |-> bm]
          ELSE IF FacesNewRaises(bm, face_indices)
          THEN [exc |-> "ValueError", bm |-> bm]
          ELSE [exc |-> IF stop <= 3 THEN "IndexError" ELSE "",
                bm |-> [bm EXCEPT !.faces = Append(@, face)]]

\* Lines 238-263: the triangles tri_i .. tri_count - 1 of one primitive.
RECURSIVE Triangles(_, _, _, _, _, _, _, _)
Triangles(prim, prim_idx, tri_i, tri_count, start_index, start_vertex, mat_index, bm) ==
    IF tri_i >= tri_count THEN [exc |-> "", bm |-> bm]
    ELSE LET r == Triangle(prim, prim_idx, tri_i, start_index, start_vertex,
                           mat_index, bm)
         IN IF r.exc /= "" THEN r
            ELSE Triangles(prim, prim_idx, tri_i + 1, tri_count, start_index,
                           start_vertex, mat_index, r.bm)

\* Line 265.
NextIdxOffset(idx_offset, pos) == idx_offset + Len(pos)

\* Lines 206-265: one pass of fill_mesh_data's loop.  outcome is "ok",
\* "skip" (the continue of line 220) or "raise"; exc is the exception's
\* type(ex).__name__ ("error" for struct.error).
FillPrimitive(prim, prim_idx, mat_mapping, bm, idx_offset) ==
    IF prim.read = "sparse"
    THEN [outcome |-> "raise", exc |-> "KeyError", bm |-> bm,
          idx_offset |-> idx_offset, start_vertex |-> 0]
    ELSE IF prim.read = "seek"
    THEN [outcome |-> "raise", exc |-> "ValueError", bm |-> bm,
          idx_offset |-> idx_offset, start_vertex |-> 0]
    ELSE IF prim.read = "range"
    THEN [outcome |-> "raise", exc |-> "AssertionError", bm |-> bm,
          idx_offset |-> idx_offset, start_vertex |-> 0]
    ELSE IF prim.read = "unpack"
    THEN [outcome |-> "raise", exc |-> "error", bm |-> bm,
          idx_offset |-> idx_offset, start_vertex |-> 0]
    ELSE
    LET bm1 == AppendVerts(bm, prim.pos)
    IN IF ~ prim.extras
       THEN [outcome |-> "skip", exc |-> "", bm |-> bm1,
             idx_offset |-> idx_offset, start_vertex |-> 0]
       ELSE
       LET mat_index == MatIndex(prim, mat_mapping)
           start_index == StartIndex(prim.asobo)
           start_vertex == StartVertex(prim.asobo, idx_offset)
       IN IF ~ prim.asobo.PrimitiveCount.has
          THEN [outcome |-> "raise", exc |-> "KeyError", bm |-> bm1,
                idx_offset |-> idx_offset, start_vertex |-> start_vertex]
          ELSE
          LET r == Triangles(prim, prim_idx, 0, prim.asobo.PrimitiveCount.v,
                             start_index, start_vertex, mat_index, bm1)
          IN IF r.exc /= ""
             THEN [outcome |-> "raise", exc |-> r.exc, bm |-> r.bm,
                   idx_offset |-> idx_offset, start_vertex |-> start_vertex]
             ELSE [outcome |-> "ok", exc |-> "", bm |-> r.bm,
                   idx_offset |-> NextIdxOffset(idx_offset, prim.pos),
                   start_vertex |-> start_vertex]

(***************************************************************************)
(* create_meshes: the per-mesh material slots (lines 274-285).             *)
(***************************************************************************)
\* bl_mesh.materials.find(name): the index of the slot holding the material
\* of that name, or -1.  A slot holds the index of a material in `mats`.
Find(slots, mats, name) ==
    LET hits == {k \in 1..Len(slots) : mats[slots[k] + 1].name = name}
    IN IF hits = {} THEN 0 - 1
       ELSE (CHOOSE k \in hits : \A h \in hits : k <= h) - 1

\* Lines 277-285 without the find: every primitive appends its material.
MapMaterialNoFind(gltf_mat_index, mats, st) ==
    [mat_mapping |-> Put(st.mat_mapping, gltf_mat_index, st.material_count),
     slots |-> Append(st.slots, gltf_mat_index),
     material_count |-> st.material_count + 1]

\* Lines 277-285 for one primitive's material; st is [mat_mapping, slots,
\* material_count].
MapMaterial(gltf_mat_index, mats, st) ==
    LET material == mats[gltf_mat_index + 1]
        mesh_mat_index == Find(st.slots, mats, material.name)
    IN IF mesh_mat_index > 0 - 1
       THEN [st EXCEPT !.mat_mapping = Put(@, gltf_mat_index, mesh_mat_index)]
       ELSE [mat_mapping |-> Put(st.mat_mapping, gltf_mat_index,
                                 st.material_count),
             slots |-> Append(st.slots, gltf_mat_index),
             material_count |-> st.material_count + 1]

\* Lines 274-285.  exc is "" or the exception that left the loop.
RECURSIVE MapMaterials(_, _, _, _)
MapMaterials(prims, mats, k, st) ==
    IF k > Len(prims) THEN [exc |-> "", st |-> st]
    ELSE IF ~ prims[k].material.has THEN [exc |-> "KeyError", st |-> st]
    ELSE IF prims[k].material.v >= Len(mats)
    THEN [exc |-> "IndexError", st |-> st]
    ELSE MapMaterials(prims, mats, k + 1,
                      MapMaterial(prims[k].material.v, mats, st))

NoSlots == [mat_mapping |-> {}, slots |-> <<>>, material_count |-> 0]

\* bpy.data.meshes.new(name): an empty mesh datablock.
NewMesh(name) == [name |-> name, verts |-> <<>>, faces |-> <<>>,
                  materials |-> <<>>]

(***************************************************************************)
(* create_objects (lines 308-333).                                         *)
(***************************************************************************)
\* Lines 321, 325, 330: converting to blender z up world.
ToBlenderLocation(t) == <<t[1], 0 - t[3], t[2]>>
ToBlenderScale(s) == <<s[1], s[3], s[2]>>
ToBlenderQuaternion(r) == <<r[4], r[1], 0 - r[3], r[2]>>

NoParent == [has |-> FALSE, v |-> 0]

\* Lines 310-332 for the nodes k ..; db is bpy.data.meshes, ms the list
\* create_meshes returned.  An object's mesh is a datablock id.
RECURSIVE ObjectsFrom(_, _, _, _, _)
ObjectsFrom(nodes, ms, k, db, done) ==
    IF k > Len(nodes) THEN [exc |-> "", objects |-> done, db |-> db]
    ELSE
    LET node == nodes[k]
        fresh == ~ node.mesh.has
        db1 == IF fresh THEN Append(db, NewMesh(node.name)) ELSE db
    IN IF node.mesh.has /\ node.mesh.v >= Len(ms)
       THEN [exc |-> "IndexError", objects |-> <<>>, db |-> db]
       ELSE IF ~ (node.translation.has /\ node.scale.has /\ node.rotation.has)
       THEN [exc |-> "KeyError", objects |-> <<>>, db |-> db1]
       ELSE ObjectsFrom(nodes, ms, k + 1, db1,
               Append(done,
                   [name |-> node.name,
                    mesh |-> IF fresh THEN Len(db1) - 1 ELSE ms[node.mesh.v + 1],
                    location |-> ToBlenderLocation(node.translation.v),
                    scale |-> ToBlenderScale(node.scale.v),
                    rotation_quaternion |->
                        ToBlenderQuaternion(node.rotation.v),
                    parent |-> NoParent]))

(***************************************************************************)
(* setup_object_hierarchy (lines 394-415).  The recursion of add_children  *)
(* is a list of pending visits, each a node and the object to parent it    *)
(* to; the roots of the scene have none.  collection.objects.link raises   *)
(* RuntimeError for an object that is in the collection already.           *)
(***************************************************************************)
Visit(node, parent) == [node |-> node, parent |-> parent]

\* Line 404 visiting the first child alone.
ChildVisitsFirstOnly(nodes, j) ==
    IF nodes[j + 1].children = <<>> THEN <<>>
    ELSE <<[node |-> nodes[j + 1].children[1], parent |-> Some(j)]>>

\* Line 404: the visits add_children makes for the children of node j.
ChildVisits(nodes, j) ==
    [c \in 1..Len(nodes[j + 1].children) |->
        Visit(nodes[j + 1].children[c], Some(j))]

\* Line 407.
SetParent(objs, j, parent) ==
    IF parent.has THEN [objs EXCEPT ![j + 1].parent = parent] ELSE objs

RECURSIVE Walk(_, _, _, _)
Walk(nodes, work, objs, coll) ==
    IF work = <<>> THEN [exc |-> "", objects |-> objs, collection |-> coll]
    ELSE
    LET j == Head(work).node
    IN IF j >= Len(nodes) \/ j >= Len(objs)
       THEN [exc |-> "IndexError", objects |-> objs, collection |-> coll]
       ELSE
       LET objs1 == SetParent(objs, j, Head(work).parent)
       IN IF j \in Range(coll)
          THEN [exc |-> "RuntimeError", objects |-> objs1, collection |-> coll]
          ELSE Walk(nodes, ChildVisits(nodes, j) \o Tail(work), objs1,
                    Append(coll, j))

\* Line 411: the visits of the first scene's roots.
RootVisits(scene_nodes) ==
    [k \in 1..Len(scene_nodes) |-> Visit(scene_nodes[k], NoParent)]

SetupHierarchy(g, objs, coll) ==
    Walk(g.nodes, RootVisits(g.scene_nodes), objs, coll)

(***************************************************************************)
(* The inputs: families of documents, each varying one part of the         *)
(* document or of the environment and keeping the rest plain.  Each is a   *)
(* predicate on the initial gltf and env.                                  *)
(***************************************************************************)
\* One mesh of up to MaxPrims primitives.
GeomInput ==
    \E n \in 1..MaxPrims : \E prims \in [1..n -> GeomPrims] :
        /\ gltf = MeshDoc(<<Mesh(WING, prims)>>)
        /\ env = PlainEnv

\* Section 8's example (a primitive of 6 vertices at BaseVertexIndex 5 after
\* one of 5 vertices), and the decode failures GeomPrims leaves out.
ExamplePrims ==
    <<Primitive("ok", 5, 5, 5, <<0, 1, 2>>, Some(0), TRUE,
                Asobo(None, None, Some(1))),
      Primitive("ok", 6, 6, 6, <<0, 1, 2, 3, 4, 5>>, Some(0), TRUE,
                Asobo(Some(0), Some(5), Some(2)))>>

ExampleInput ==
    \E prims \in {ExamplePrims, <<RangePrim>>, <<SeekPrim>>, <<UnpackPrim>>,
                  <<GoodPrim, SeekPrim>>, <<ShortUv1Prim>>,
                  <<GoodPrim, ShortUv1Prim>>} :
        /\ gltf = MeshDoc(<<Mesh(FROSTY, <<GoodPrim>>), Mesh(WING, prims)>>)
        /\ env = PlainEnv

\* Up to MaxMeshes meshes of one primitive each, under either name, with the
\* log file of line 299 writable or not.
MultiMeshes == {Mesh(n, <<p>>) : n \in MeshNames, p \in MultiPrims}

MultiInput ==
    \E n \in 1..MaxMeshes : \E ms \in [1..n -> MultiMeshes] :
    \E w \in BOOLEAN :
        /\ gltf = MeshDoc(ms)
        /\ env = Env(GLTF_FILE, TEXTURE, <<"ok">>, w)

\* Three glTF materials, names repeated or not, referenced by up to MaxPrims
\* primitives of one mesh.
MaterialNames == {"Paint", "Glass"}

MaterialInput ==
    \E names \in [1..3 -> MaterialNames] :
    \E n \in 1..MaxPrims : \E ms \in [1..n -> 0..2] :
        /\ gltf = Gltf(TopKeys, <<BIN_URI>>, <<FOO_DDS>>, <<0>>,
                       [k \in 1..3 |-> GltfMaterial(names[k], None)],
                       <<Mesh(WING, [k \in 1..n |-> MatPrim(ms[k])])>>,
                       PlainNodes, <<0>>)
        /\ env = PlainEnv

\* The glTF file, the texture folder argument, the images and what refers
\* to them.
ImageUris ==
    {FOO_DDS,
     Path(FALSE, <<<<"bar", "png">>>>),
     Path(FALSE, <<<<"foo", "PNG", "DDS">>>>),
     Path(FALSE, <<<<"foo", "dDs">>>>),
     Path(FALSE, <<<<"foo", "pNg", "dds">>>>),
     Path(FALSE, <<<<"", "dds">>>>),
     Path(FALSE, <<<<"sub">>, <<"baz", "Dds">>>>),
     Path(TRUE, <<<<"abs">>, <<"q", "png">>>>)}

GltfFiles ==
    {GLTF_FILE,
     Path(FALSE, <<<<"model">>, <<"a", "gltf">>>>),
     Path(FALSE, <<<<"a", "gltf">>>>)}

TextureFolders ==
    {TEXTURE,
     Path(FALSE, <<<<"TEXTURE", "A320">>>>),
     Path(TRUE, <<<<"tex">>>>)}

TextureInput ==
    \E n \in 0..2 : \E imgs \in [1..n -> ImageUris] :
    \E texs \in {<<>>, <<0>>, <<1, 0>>} : \E tex \in {None, Some(0), Some(1)} :
    \E file \in GltfFiles : \E folder \in TextureFolders :
        /\ gltf = Gltf(TopKeys, <<BIN_URI>>, imgs, texs,
                       <<GltfMaterial("Paint", tex)>>, PlainMeshes,
                       PlainNodes, <<0>>)
        /\ env = Env(file, folder, <<"ok">>, TRUE)

\* Up to MaxBuffers buffer files, each readable, missing or empty (mmap
\* refuses an empty file), with a mesh that decodes or one that is aborted.
BufferInput ==
    \E n \in 1..MaxBuffers : \E status \in [1..n -> {"ok", "missing", "empty"}] :
    \E p \in {GoodPrim, VertexOutOfRangePrim} : \E w \in BOOLEAN :
        /\ gltf = Gltf(TopKeys, [k \in 1..n |-> BIN_URI], <<FOO_DDS>>, <<0>>,
                       PlainMaterials, <<Mesh(WING, <<p>>)>>, PlainNodes,
                       <<0>>)
        /\ env = Env(GLTF_FILE, TEXTURE, status, w)

\* Up to MaxNodes nodes: every child relation of fewer edges than nodes
\* (forests and not), one or two scene roots, at most one node without a
\* mesh.
RECURSIVE SetToSeq(_)
SetToSeq(S) ==
    IF S = {} THEN <<>>
    ELSE LET m == CHOOSE x \in S : \A y \in S : x <= y
         IN <<m>> \o SetToSeq(S \ {m})

SceneInput ==
    \E n \in 1..MaxNodes :
    \E edges \in {E \in SUBSET {e \in (0..(n - 1)) \X (0..(n - 1)) :
                                   e[1] /= e[2]} : Cardinality(E) < n} :
    \E roots \in {R \in SUBSET (0..(n - 1)) : Cardinality(R) \in 1..2} :
    \E bare \in 0..n :
        /\ gltf = Gltf(TopKeys, <<BIN_URI>>, <<FOO_DDS>>, <<0>>,
                       PlainMaterials, PlainMeshes,
                       [i \in 1..n |->
                           FullNode(i - 1,
                               IF i - 1 = bare THEN None ELSE Some(0),
                               SetToSeq({j \in 0..(n - 1) :
                                            <<i - 1, j>> \in edges}))],
                       SetToSeq(roots))
        /\ env = PlainEnv

\* Two nodes, parent and child, one of them lacking a transform key or
\* naming a mesh the document does not have.
BrokenNodeInput ==
    \E k \in 1..2 : \E m \in {None, Some(0), Some(3)} :
    \E t \in {NoVec3, Some(<<1, 2, 3>>)} :
    \E r \in {NoVec4, Some(<<0, 0, 0, 1>>)} :
    \E sc \in {NoVec3, Some(<<1, 1, 1>>)} :
        /\ gltf = Gltf(TopKeys, <<BIN_URI>>, <<FOO_DDS>>, <<0>>,
                       PlainMaterials, PlainMeshes,
                       [i \in 1..2 |->
                           IF i = k
                           THEN Node(NodeName(i - 1), m, t, r, sc,
                                     IF i = 1 THEN <<1>> ELSE <<>>)
                           ELSE FullNode(i - 1, Some(0),
                                         IF i = 1 THEN <<1>> ELSE <<>>)],
                       <<0>>)
        /\ env = PlainEnv

\* A top-level key missing.
MalformedInput ==
    \E k \in TopKeys :
        /\ gltf = Gltf(TopKeys \ {k}, <<BIN_URI>>, <<FOO_DDS>>, <<0>>,
                       PlainMaterials, PlainMeshes, PlainNodes, <<0>>)
        /\ env = PlainEnv

Input ==
    \/ GeomInput
    \/ ExampleInput
    \/ MultiInput
    \/ MaterialInput
    \/ TextureInput
    \/ BufferInput
    \/ SceneInput
    \/ BrokenNodeInput
    \/ MalformedInput

(***************************************************************************)
(* The state machine: import_msfs_gltf (lines 418-435), one action per     *)
(* step.  Inside the with block of line 428 an exception that leaves       *)
(* create_meshes unwinds the ExitStack, which closes the files entered.    *)
(***************************************************************************)
NoLocals == [buffer_paths |-> <<>>, mi |-> 0, mat_mapping |-> {},
             b_mesh |-> EmptyBMesh, prim_idx |-> 0, idx_offset |-> 0]

Init ==
    /\ Input
    /\ pc = "load"
    /\ result = Running
    /\ texture_path = Path(FALSE, <<>>)
    /\ images = <<>>
    /\ materials = <<>>
    /\ report = <<>>
    /\ files = <<>>
    /\ maps = <<>>
    /\ bpy_meshes = <<>>
    /\ meshes = <<>>
    /\ cur = NoLocals
    /\ objects = <<>>
    /\ collection = <<>>
    /\ prim_log = <<>>

\* ExitStack.__exit__: every file entered is closed.
CloseAll(fs) == [k \in 1..Len(fs) |-> FALSE]

\* Lines 336-346.
BufferPaths(g, gltf_file) ==
    [k \in 1..Len(g.buffers) |-> JoinPath(Parent(gltf_file), g.buffers[k])]

LoadGltfFile ==
    /\ pc = "load"
    /\ "buffers" \in gltf.keys
    /\ cur' = [cur EXCEPT !.buffer_paths = BufferPaths(gltf, env.gltf_file)]
    /\ pc' = "texture_path"
    /\ UNCHANGED <<gltf, env, result, texture_path, images, materials, report,
                   files, maps, bpy_meshes, meshes, objects, collection,
                   prim_log>>

LoadGltfFileRaises ==
    /\ pc = "load"
    /\ "buffers" \notin gltf.keys
    /\ pc' = "failed"
    /\ result' = Raised("KeyError", "load_gltf_file")
    /\ UNCHANGED <<gltf, env, texture_path, images, materials, report, files,
                   maps, bpy_meshes, meshes, cur, objects, collection,
                   prim_log>>

\* Lines 422-425.
TextureRoot(gltf_file, texture_folder_name) ==
    IF ~ IsAbsoluteAttr(texture_folder_name)
    THEN JoinPath(Parent(Parent(gltf_file)), texture_folder_name)
    ELSE texture_folder_name

ResolveTexturePath ==
    /\ pc = "texture_path"
    /\ texture_path' = TextureRoot(env.gltf_file, env.texture_folder)
    /\ pc' = "materials"
    /\ UNCHANGED <<gltf, env, result, images, materials, report, files, maps,
                   bpy_meshes, meshes, cur, objects, collection, prim_log>>

\* Line 427.
CreateMaterials ==
    /\ pc = "materials"
    /\ LET r == CreateMaterialsResult(gltf, texture_path)
       IN /\ r.exc = ""
          /\ materials' = r.materials
    /\ images' = GetImagePaths(gltf, texture_path)
    /\ report' = report \o ImageWarnings(gltf)
    /\ pc' = "open"
    /\ UNCHANGED <<gltf, env, result, texture_path, files, maps, bpy_meshes,
                   meshes, cur, objects, collection, prim_log>>

CreateMaterialsRaises ==
    /\ pc = "materials"
    /\ LET r == CreateMaterialsResult(gltf, texture_path)
       IN /\ r.exc /= ""
          /\ result' = Raised(r.exc, "create_materials")
    /\ images' = GetImagePaths(gltf, texture_path)
    /\ report' = report \o ImageWarnings(gltf)
    /\ pc' = "failed"
    /\ UNCHANGED <<gltf, env, texture_path, materials, files, maps,
                   bpy_meshes, meshes, cur, objects, collection, prim_log>>

\* Line 429: the next buffer file is opened and entered on the stack.
OpenBuffer ==
    /\ pc = "open"
    /\ Len(files) < Len(cur.buffer_paths)
    /\ env.file_status[Len(files) + 1] /= "missing"
    /\ files' = Append(files, TRUE)
    /\ UNCHANGED <<gltf, env, pc, result, texture_path, images, materials,
                   report, maps, bpy_meshes, meshes, cur, objects, collection,
                   prim_log>>

OpenBufferRaises ==
    /\ pc = "open"
    /\ Len(files) < Len(cur.buffer_paths)
    /\ env.file_status[Len(files) + 1] = "missing"
    /\ files' = CloseAll(files)
    /\ pc' = "failed"
    /\ result' = Raised("OSError", "open")
    /\ UNCHANGED <<gltf, env, texture_path, images, materials, report, maps,
                   bpy_meshes, meshes, cur, objects, collection, prim_log>>

\* Line 430: the next file is mapped; the mapping is entered on no stack.
MapBuffer ==
    /\ pc = "open"
    /\ Len(files) = Len(cur.buffer_paths)
    /\ Len(maps) < Len(files)
    /\ env.file_status[Len(maps) + 1] = "ok"
    /\ maps' = Append(maps, TRUE)
    /\ UNCHANGED <<gltf, env, pc, result, texture_path, images, materials,
                   report, files, bpy_meshes, meshes, cur, objects,
                   collection, prim_log>>

MapBufferRaises ==
    /\ pc = "open"
    /\ Len(files) = Len(cur.buffer_paths)
    /\ Len(maps) < Len(files)
    /\ env.file_status[Len(maps) + 1] = "empty"
    /\ files' = CloseAll(files)
    /\ pc' = "failed"
    /\ result' = Raised("ValueError", "mmap")
    /\ UNCHANGED <<gltf, env, texture_path, images, materials, report, maps,
                   bpy_meshes, meshes, cur, objects, collection, prim_log>>

\* Line 431: create_meshes is entered with every buffer mapped.
EnterCreateMeshes ==
    /\ pc = "open"
    /\ Len(files) = Len(cur.buffer_paths)
    /\ Len(maps) = Len(files)
    /\ "meshes" \in gltf.keys
    /\ pc' = "meshes"
    /\ UNCHANGED <<gltf, env, result, texture_path, images, materials, report,
                   files, maps, bpy_meshes, meshes, cur, objects, collection,
                   prim_log>>

\* Line 270 without the key.
CreateMeshesRaises ==
    /\ pc = "open"
    /\ Len(files) = Len(cur.buffer_paths)
    /\ Len(maps) = Len(files)
    /\ "meshes" \notin gltf.keys
    /\ files' = CloseAll(files)
    /\ pc' = "failed"
    /\ result' = Raised("KeyError", "create_meshes")
    /\ UNCHANGED <<gltf, env, texture_path, images, materials, report, maps,
                   bpy_meshes, meshes, cur, objects, collection, prim_log>>

(***************************************************************************)
(* create_meshes (lines 268-305) and fill_mesh_data (lines 200-265).       *)
(***************************************************************************)
CurrentMesh == gltf.meshes[cur.mi + 1]
CurrentPrim == CurrentMesh.primitives[cur.prim_idx + 1]

\* Line 219.
NoAsoboDiag == Diag("ERROR", NO_ASOBO, <<>>)

\* Line 298.
MeshErrorDiag(name) == Diag("ERROR", COULD_NOT_HANDLE, name)

\* Lines 271-289: the datablock, its material slots, an empty bmesh.
MeshSetup ==
    /\ pc = "meshes"
    /\ cur.mi < Len(gltf.meshes)
    /\ LET r == MapMaterials(CurrentMesh.primitives, materials, 1, NoSlots)
       IN /\ r.exc = ""
          /\ bpy_meshes' = Append(bpy_meshes,
                 [NewMesh(CurrentMesh.name) EXCEPT !.materials = r.st.slots])
          /\ cur' = [cur EXCEPT !.mat_mapping = r.st.mat_mapping,
                                !.b_mesh = EmptyBMesh,
                                !.prim_idx = 0,
                                !.idx_offset = 0]
    /\ meshes' = Append(meshes, Len(bpy_meshes))
    /\ pc' = "fill"
    /\ UNCHANGED <<gltf, env, result, texture_path, images, materials, report,
                   files, maps, objects, collection, prim_log>>

\* Line 277 or 278 raises: nothing catches it.
MeshSetupRaises ==
    /\ pc = "meshes"
    /\ cur.mi < Len(gltf.meshes)
    /\ LET r == MapMaterials(CurrentMesh.primitives, materials, 1, NoSlots)
       IN /\ r.exc /= ""
          /\ bpy_meshes' = Append(bpy_meshes,
                 [NewMesh(CurrentMesh.name) EXCEPT !.materials = r.st.slots])
          /\ result' = Raised(r.exc, "create_meshes")
    /\ meshes' = Append(meshes, Len(bpy_meshes))
    /\ files' = CloseAll(files)
    /\ pc' = "failed"
    /\ UNCHANGED <<gltf, env, texture_path, images, materials, report, maps,
                   cur, objects, collection, prim_log>>

FillStep ==
    FillPrimitive(CurrentPrim, cur.prim_idx, cur.mat_mapping, cur.b_mesh,
                  cur.idx_offset)

\* History: what one pass of the loop of line 205 did.
LogEntry(r) ==
    [mesh |-> cur.mi, prim |-> cur.prim_idx,
     pool_before |-> Len(cur.b_mesh.verts),
     start_vertex |-> r.start_vertex, outcome |-> r.outcome, exc |-> r.exc]

\* One pass of the loop of line 205 that reaches line 265.
FillPrimitiveOk ==
    /\ pc = "fill"
    /\ DecodesMesh(CurrentMesh.name)
    /\ cur.prim_idx < Len(CurrentMesh.primitives)
    /\ LET r == FillStep
       IN /\ r.outcome = "ok"
          /\ cur' = [cur EXCEPT !.b_mesh = r.bm,
                                !.idx_offset = r.idx_offset,
                                !.prim_idx = @ + 1]
          /\ prim_log' = Append(prim_log, LogEntry(r))
    /\ UNCHANGED <<gltf, env, pc, result, texture_path, images, materials,
                   report, files, maps, bpy_meshes, meshes, objects,
                   collection>>

\* One pass that ends at the continue of line 220.
FillPrimitiveSkip ==
    /\ pc = "fill"
    /\ DecodesMesh(CurrentMesh.name)
    /\ cur.prim_idx < Len(CurrentMesh.primitives)
    /\ LET r == FillStep
       IN /\ r.outcome = "skip"
          /\ cur' = [cur EXCEPT !.b_mesh = r.bm,
                                !.idx_offset = r.idx_offset,
                                !.prim_idx = @ + 1]
          /\ prim_log' = Append(prim_log, LogEntry(r))
    /\ report' = Append(report, NoAsoboDiag)
    /\ UNCHANGED <<gltf, env, pc, result, texture_path, images, materials,
                   files, maps, bpy_meshes, meshes, objects, collection>>

\* One pass that raises, handled by lines 296-301 with the log file of line
\* 299 opened and written: the mesh is left as created, the loop of line 270
\* continues.
FillMeshDataRaises ==
    /\ pc = "fill"
    /\ DecodesMesh(CurrentMesh.name)
    /\ cur.prim_idx < Len(CurrentMesh.primitives)
    /\ env.log_writable
    /\ LET r == FillStep
       IN /\ r.outcome = "raise"
          /\ cur' = [cur EXCEPT !.b_mesh = r.bm, !.mi = @ + 1]
          /\ prim_log' = Append(prim_log, LogEntry(r))
    /\ report' = Append(report, MeshErrorDiag(CurrentMesh.name))
    /\ pc' = "meshes"
    /\ UNCHANGED <<gltf, env, result, texture_path, images, materials, files,
                   maps, bpy_meshes, meshes, objects, collection>>

\* One pass that raises, with the open of line 299 raising OSError inside
\* the handler: the exception leaves create_meshes and the with block.
FillMeshDataRaisesLogFails ==
    /\ pc = "fill"
    /\ DecodesMesh(CurrentMesh.name)
    /\ cur.prim_idx < Len(CurrentMesh.primitives)
    /\ ~ env.log_writable
    /\ LET r == FillStep
       IN /\ r.outcome = "raise"
          /\ cur' = [cur EXCEPT !.b_mesh = r.bm]
          /\ prim_log' = Append(prim_log, LogEntry(r))
    /\ report' = Append(report, MeshErrorDiag(CurrentMesh.name))
    /\ files' = CloseAll(files)
    /\ pc' = "failed"
    /\ result' = Raised("OSError", "create_meshes")
    /\ UNCHANGED <<gltf, env, texture_path, images, materials, maps,
                   bpy_meshes, meshes, objects, collection>>

\* Lines 303-304, reached when fill_mesh_data returned or was not called
\* (line 291).
MeshToMesh ==
    /\ pc = "fill"
    /\ \/ ~ DecodesMesh(CurrentMesh.name)
       \/ cur.prim_idx = Len(CurrentMesh.primitives)
    /\ bpy_meshes' = [bpy_meshes EXCEPT
                         ![Last(meshes) + 1].verts = cur.b_mesh.verts,
                         ![Last(meshes) + 1].faces = cur.b_mesh.faces]
    /\ cur' = [cur EXCEPT !.mi = @ + 1]
    /\ pc' = "meshes"
    /\ UNCHANGED <<gltf, env, result, texture_path, images, materials, report,
                   files, maps, meshes, objects, collection, prim_log>>

\* Line 305 and the end of the with block.
CreateMeshesReturns ==
    /\ pc = "meshes"
    /\ cur.mi = Len(gltf.meshes)
    /\ files' = CloseAll(files)
    /\ pc' = "objects"
    /\ UNCHANGED <<gltf, env, result, texture_path, images, materials, report,
                   maps, bpy_meshes, meshes, cur, objects, collection,
                   prim_log>>

(***************************************************************************)
(* Lines 432-435.                                                          *)
(***************************************************************************)
CreateObjectsResult ==
    IF "nodes" \notin gltf.keys
    THEN [exc |-> "KeyError", objects |-> <<>>, db |-> bpy_meshes]
    ELSE ObjectsFrom(gltf.nodes, meshes, 1, bpy_meshes, <<>>)

CreateObjects ==
    /\ pc = "objects"
    /\ LET r == CreateObjectsResult
       IN /\ r.exc = ""
          /\ objects' = r.objects
          /\ bpy_meshes' = r.db
    /\ pc' = "hierarchy"
    /\ UNCHANGED <<gltf, env, result, texture_path, images, materials, report,
                   files, maps, meshes, cur, collection, prim_log>>

CreateObjectsRaises ==
    /\ pc = "objects"
    /\ LET r == CreateObjectsResult
       IN /\ r.exc /= ""
          /\ bpy_meshes' = r.db
          /\ result' = Raised(r.exc, "create_objects")
    /\ pc' = "failed"
    /\ UNCHANGED <<gltf, env, texture_path, images, materials, report, files,
                   maps, meshes, cur, objects, collection, prim_log>>

SetupObjectHierarchyResult ==
    IF "scenes" \notin gltf.keys
    THEN [exc |-> "KeyError", objects |-> objects, collection |-> collection]
    ELSE SetupHierarchy(gltf, objects, collection)

\* Lines 433-435.
SetupObjectHierarchy ==
    /\ pc = "hierarchy"
    /\ LET r == SetupObjectHierarchyResult
       IN /\ r.exc = ""
          /\ objects' = r.objects
          /\ collection' = r.collection
    /\ pc' = "done"
    /\ result' = Finished
    /\ UNCHANGED <<gltf, env, texture_path, images, materials, report, files,
                   maps, bpy_meshes, meshes, cur, prim_log>>

SetupObjectHierarchyRaises ==
    /\ pc = "hierarchy"
    /\ LET r == SetupObjectHierarchyResult
       IN /\ r.exc /= ""
          /\ objects' = r.objects
          /\ collection' = r.collection
          /\ result' = Raised(r.exc, "setup_object_hierarchy")
    /\ pc' = "failed"
    /\ UNCHANGED <<gltf, env, texture_path, images, materials, report, files,
                   maps, bpy_meshes, meshes, cur, prim_log>>

\* Nothing closes a mapping: it lives until the interpreter finds the mmap
\* object unreachable, which is after import_msfs_gltf's frame is gone.
GarbageCollect ==
    /\ pc \in {"done", "failed"}
    /\ \E k \in 1..Len(maps) : maps[k]
    /\ maps' = [k \in 1..Len(maps) |-> FALSE]
    /\ UNCHANGED <<gltf, env, pc, result, texture_path, images, materials,
                   report, files, bpy_meshes, meshes, cur, objects,
                   collection, prim_log>>

Next ==
    \/ LoadGltfFile
    \/ LoadGltfFileRaises
    \/ ResolveTexturePath
    \/ CreateMaterials
    \/ CreateMaterialsRaises
    \/ OpenBuffer
    \/ OpenBufferRaises
    \/ MapBuffer
    \/ MapBufferRaises
    \/ EnterCreateMeshes
    \/ CreateMeshesRaises
    \/ MeshSetup
    \/ MeshSetupRaises
    \/ FillPrimitiveOk
    \/ FillPrimitiveSkip
    \/ FillMeshDataRaises
    \/ FillMeshDataRaisesLogFails
    \/ MeshToMesh
    \/ CreateMeshesReturns
    \/ CreateObjects
    \/ CreateObjectsRaises
    \/ SetupObjectHierarchy
    \/ SetupObjectHierarchyRaises
    \/ GarbageCollect

Spec == Init /\ [][Next]_vars

(***************************************************************************)
(* Properties.                                                             *)
(***************************************************************************)
\* The faces of glTF mesh m (0-based): the bmesh being filled for the
\* current mesh, the datablock for a mesh create_meshes is done with.
Filling(m) == pc = "fill" /\ cur.mi = m
FacesOf(m) ==
    IF Filling(m) THEN cur.b_mesh.faces
    ELSE bpy_meshes[meshes[m + 1] + 1].faces

PrimOf(m, p) == gltf.meshes[m + 1].primitives[p + 1]

\* The meshes whose faces can be looked at.
SeenMeshes == {m \in 0..(Len(meshes) - 1) : Filling(m) \/ m < cur.mi}

LogOf(m) == {k \in 1..Len(prim_log) : prim_log[k].mesh = m}

\* What the claim C1 says the face of triangle t of a primitive is.
C1_Verts(prim, t) ==
    LET s == IF prim.asobo.StartIndex.has THEN prim.asobo.StartIndex.v ELSE 0
        b == prim.asobo.BaseVertexIndex.v
        r0 == prim.idx[s + 3 * t + 1]
        r1 == prim.idx[s + 3 * t + 2]
        r2 == prim.idx[s + 3 * t + 3]
    IN <<b + r2, b + r1, b + r0>>

C1_Uv(prim, tc, t) ==
    LET s == IF prim.asobo.StartIndex.has THEN prim.asobo.StartIndex.v ELSE 0
        r0 == prim.idx[s + 3 * t + 1]
        r1 == prim.idx[s + 3 * t + 2]
        r2 == prim.idx[s + 3 * t + 3]
        at(r) == <<tc[r + 1][1], 1 - tc[r + 1][2]>>
    IN <<at(r2), at(r1), at(r0)>>

\* C1: every face built for triangle t of a primitive that states its
\* BaseVertexIndex b has the vertex ids (b + r2, b + r1, b + r0) and the UVs
\* of its own TEXCOORD arrays at (r2, r1, r0), b not added; and once the
\* loop is past such a primitive, each of its PrimitiveCount triangles has
\* exactly one face.
C1_FaceFromReversedIndices ==
    /\ \A m \in SeenMeshes : \A k \in 1..Len(FacesOf(m)) :
          LET f == FacesOf(m)[k]
              prim == PrimOf(m, f.prim)
          IN prim.asobo.BaseVertexIndex.has =>
                /\ f.verts = C1_Verts(prim, f.tri)
                /\ f.uv0 = C1_Uv(prim, prim.tc0, f.tri)
                /\ f.uv1 = C1_Uv(prim, prim.tc1, f.tri)
    /\ pc = "fill" =>
          \A k \in LogOf(cur.mi) :
             LET e == prim_log[k]
                 prim == PrimOf(e.mesh, e.prim)
             IN (e.outcome = "ok" /\ prim.asobo.BaseVertexIndex.has) =>
                   \A t \in 0..(prim.asobo.PrimitiveCount.v - 1) :
                      Cardinality({j \in 1..Len(cur.b_mesh.faces) :
                                      /\ cur.b_mesh.faces[j].prim = e.prim
                                      /\ cur.b_mesh.faces[j].tri = t}) = 1

\* C1 witness: section 8's example is imported: StartIndex 0, BaseVertexIndex 5,
\* PrimitiveCount 2, indices 0..5 give the faces (7,6,5) and (10,9,8).
C1_Witness ==
    /\ pc = "done"
    /\ \E m \in SeenMeshes :
          /\ gltf.meshes[m + 1].primitives = ExamplePrims
          /\ \E j, k \in 1..Len(FacesOf(m)) :
                /\ FacesOf(m)[j].prim = 1 /\ FacesOf(m)[j].tri = 0
                /\ FacesOf(m)[j].verts = <<7, 6, 5>>
                /\ FacesOf(m)[k].prim = 1 /\ FacesOf(m)[k].tri = 1
                /\ FacesOf(m)[k].verts = <<10, 9, 8>>

DiagCount(severity, msg) ==
    Cardinality({k \in 1..Len(report) :
                    report[k].severity = severity /\ report[k].msg = msg})

SkipCount == Cardinality({k \in 1..Len(prim_log) : prim_log[k].outcome = "skip"})

Aborted(m) == \E k \in LogOf(m) : prim_log[k].outcome = "raise"

\* <<primitive, triangle>> of every face of mesh m.
Provenance(m) == {<<FacesOf(m)[k].prim, FacesOf(m)[k].tri>> :
                     k \in 1..Len(FacesOf(m))}

\* The primitives of the document without extras.ASOBO_primitive.
WithoutMetadata ==
    {<<m, p>> \in (0..(Len(gltf.meshes) - 1)) \X (0..(MaxPrims - 1)) :
        /\ p < Len(gltf.meshes[m + 1].primitives)
        /\ ~ PrimOf(m, p).extras}

\* C2 as stated: a primitive without extras.ASOBO_primitive contributes no
\* face and is reported by exactly one diagnostic of severity WARNING, and
\* the remaining primitives of its mesh are still processed: once the import
\* is done there is one such WARNING for each primitive without the metadata,
\* and a mesh of three primitives whose second alone lacks the metadata holds
\* exactly the triangles of its first and its third primitive.
C2_WarningPerSkippedPrimitive ==
    /\ \A m \in SeenMeshes : \A k \in 1..Len(FacesOf(m)) :
          PrimOf(m, FacesOf(m)[k].prim).extras
    /\ DiagCount("WARNING", NO_ASOBO) = SkipCount
    /\ (pc = "done" /\ "meshes" \in gltf.keys) =>
          /\ DiagCount("WARNING", NO_ASOBO) = Cardinality(WithoutMetadata)
          /\ \A m \in SeenMeshes :
                (/\ Len(gltf.meshes[m + 1].primitives) = 3
                 /\ PrimOf(m, 0).extras /\ ~ PrimOf(m, 1).extras
                 /\ PrimOf(m, 2).extras)
                => {pt[1] : pt \in Provenance(m)} = {0, 2}

\* C3 as stated: after a primitive raised for an index out of range, the
\* mesh is reported by an ERROR and create_meshes has gone on to the next
\* mesh.
C3_AbortedMeshDoesNotStopTheImport ==
    \A k \in 1..Len(prim_log) :
       (prim_log[k].outcome = "raise" /\ prim_log[k].exc = "IndexError") =>
          /\ \E d \in 1..Len(report) :
                report[d] = MeshErrorDiag(gltf.meshes[prim_log[k].mesh + 1].name)
          /\ cur.mi > prim_log[k].mesh

BuffersReadable == \A k \in 1..Len(env.file_status) : env.file_status[k] = "ok"

\* C4 as stated: with the top-level keys present and the buffer files
\* readable, a primitive that could not be decoded (an accessor out of
\* range or sparse, PrimitiveCount or the metadata missing, an index out of
\* range) never makes import_msfs_gltf raise.
C4_DecodeFailuresNeverPropagate ==
    (/\ gltf.keys = TopKeys
     /\ BuffersReadable
     /\ \E k \in 1..Len(prim_log) : prim_log[k].outcome \in {"raise", "skip"})
    => result.status /= "raised"

\* C5 as stated: a primitive that omits BaseVertexIndex has its faces built
\* at a base equal to the size of the vertex pool before its own positions
\* were appended.
C5_DefaultBaseIsPoolSize ==
    \A k \in 1..Len(prim_log) :
       LET e == prim_log[k]
       IN (e.outcome = "ok"
           /\ ~ PrimOf(e.mesh, e.prim).asobo.BaseVertexIndex.has)
          => e.start_vertex = e.pool_before

\* C6 as stated: a relative texture folder is resolved against the
\* grandparent of the glTF file, an absolute one is used as it is, and
\* that root resolves every image.
C6_ExpectedRoot ==
    IF IsAbsolute(env.texture_folder) THEN env.texture_folder
    ELSE JoinPath(Parent(Parent(env.gltf_file)), env.texture_folder)

C6_TextureRoot ==
    /\ pc = "materials" => texture_path = C6_ExpectedRoot
    /\ pc = "open" =>
          \A k \in 1..Len(images) :
             images[k] = JoinPath(C6_ExpectedRoot, ImageUri(gltf.images[k]))

\* C7 as stated: once the with block is left, on any path, no buffer file
\* is open and no mapping is alive.
C7_HandlesReleased ==
    pc \in {"objects", "hierarchy", "done", "failed"} =>
       /\ \A k \in 1..Len(files) : ~ files[k]
       /\ \A k \in 1..Len(maps) : ~ maps[k]

\* C10 as stated: two meshes of the same primitives come out the same,
\* whatever their names.
C10_NameDoesNotMatter ==
    \A m1, m2 \in SeenMeshes :
       (/\ m1 < cur.mi /\ m2 < cur.mi
        /\ gltf.meshes[m1 + 1].primitives = gltf.meshes[m2 + 1].primitives)
       => /\ FacesOf(m1) = FacesOf(m2)
          /\ bpy_meshes[meshes[m1 + 1] + 1].verts
                = bpy_meshes[meshes[m2 + 1] + 1].verts

\* The node graph of the document.
NodeIds == 0..(Len(gltf.nodes) - 1)
Kids(j) == Range(gltf.nodes[j + 1].children)
Roots == Range(gltf.scene_nodes)
Parents(j) == {p \in NodeIds : j \in Kids(p)}

RECURSIVE Closure(_)
Closure(S) ==
    LET T == S \cup UNION {Kids(j) : j \in S}
    IN IF T = S THEN S ELSE Closure(T)

Reachable == Closure(Roots)

\* A forest rooted at scenes[0].nodes: no node has two parents, a root has
\* none, no node is its own descendant.
IsForest ==
    /\ \A j \in NodeIds : Cardinality(Parents(j)) <= 1
    /\ \A j \in Roots : Parents(j) = {}
    /\ \A j \in NodeIds : j \notin Closure(Kids(j))

LinkCount(j) == Cardinality({k \in 1..Len(collection) : collection[k] = j})

\* C8: for a forest, setup_object_hierarchy does not raise for a node met
\* twice, and after it every node has an object whose mesh is a datablock,
\* the glTF mesh it names or else an empty one of its own that no other
\* object has; every node reachable from the roots is linked once and no
\* other node is linked; a reachable node that is no root has the node
\* listing it as a child for its parent; a root has no parent.
C8_HierarchyOfAForest ==
    IF ~ (IsForest /\ gltf.keys = TopKeys) THEN TRUE
    ELSE
    /\ pc = "failed" => result.at /= "setup_object_hierarchy"
    /\ pc = "done" =>
          /\ Len(objects) = Len(gltf.nodes)
          /\ \A j \in NodeIds :
                LET o == objects[j + 1]
                    node == gltf.nodes[j + 1]
                IN /\ o.mesh \in 0..(Len(bpy_meshes) - 1)
                   /\ node.mesh.has => o.mesh = meshes[node.mesh.v + 1]
                   /\ ~ node.mesh.has =>
                         /\ o.mesh \notin Range(meshes)
                         /\ bpy_meshes[o.mesh + 1].verts = <<>>
                         /\ bpy_meshes[o.mesh + 1].faces = <<>>
                         /\ \A i \in NodeIds \ {j} : objects[i + 1].mesh /= o.mesh
                   /\ LinkCount(j) = IF j \in Reachable THEN 1 ELSE 0
                   /\ j \in Reachable \ Roots =>
                         o.parent.has /\ j \in Kids(o.parent.v)
                   /\ j \in Roots => ~ o.parent.has

\* C8 witness: a forest is imported in which a node without a mesh is the child of
\* another node, and a third node is out of the scene.
C8_Witness ==
    /\ pc = "done"
    /\ IsForest
    /\ \E j \in Reachable \ Roots : ~ gltf.nodes[j + 1].mesh.has
    /\ \E j \in NodeIds : j \notin Reachable
    /\ \E j \in Roots : Kids(j) /= {}

\* The glTF materials the primitives of mesh m name, and its datablock's
\* material slots.
Referenced(m) ==
    {gltf.meshes[m + 1].primitives[k].material.v :
        k \in 1..Len(gltf.meshes[m + 1].primitives)}
SlotsOf(m) == bpy_meshes[meshes[m + 1] + 1].materials

\* C9: in every mesh create_meshes set up, each glTF material its
\* primitives name is in exactly one slot and the slots hold nothing else
\* and no Blender material twice; while the mesh is filled the mapping
\* sends each of them to the slot that holds it; every face's
\* material_index is the slot of its primitive's material.
C9_OneSlotPerMaterial ==
    \A m \in SeenMeshes :
       /\ \A g \in Referenced(m) :
             Cardinality({s \in 1..Len(SlotsOf(m)) : SlotsOf(m)[s] = g}) = 1
       /\ Range(SlotsOf(m)) = Referenced(m)
       /\ \A s1, s2 \in 1..Len(SlotsOf(m)) :
             s1 /= s2 => materials[SlotsOf(m)[s1] + 1]
                            /= materials[SlotsOf(m)[s2] + 1]
       /\ Filling(m) =>
             \A g \in Referenced(m) :
                /\ HasKey(cur.mat_mapping, g)
                /\ Get(cur.mat_mapping, g) \in 0..(Len(SlotsOf(m)) - 1)
                /\ SlotsOf(m)[Get(cur.mat_mapping, g) + 1] = g
       /\ \A k \in 1..Len(FacesOf(m)) :
             LET f == FacesOf(m)[k]
             IN /\ f.material_index \in 0..(Len(SlotsOf(m)) - 1)
                /\ SlotsOf(m)[f.material_index + 1]
                      = PrimOf(m, f.prim).material.v

\* C9 witness: a mesh of three primitives is filled, the first and the third naming one
\* material, the second another of the same glTF name.
C9_Witness ==
    /\ pc = "fill"
    /\ Len(CurrentMesh.primitives) = 3
    /\ cur.prim_idx = 3
    /\ Len(cur.b_mesh.faces) = 3
    /\ PrimOf(cur.mi, 0).material.v = PrimOf(cur.mi, 2).material.v
    /\ PrimOf(cur.mi, 0).material.v /= PrimOf(cur.mi, 1).material.v
    /\ gltf.materials[PrimOf(cur.mi, 0).material.v + 1].name
          = gltf.materials[PrimOf(cur.mi, 1).material.v + 1].name
    /\ Len(SlotsOf(cur.mi)) = 2

====
